---- MODULE Spec2Model ----
(***************************************************************************)
(* Model of pylablib/core/utils/functions.py: function signatures          *)
(* (FunctionSignature, getargsfrom, call_cut_args), object property        *)
(* wrappers (MethodObjectProperty, obj_prop) and delayed definitions       *)
(* (delaydef).                                                             *)
(*                                                                         *)
(* Python values are modelled as follows.  None is the string "None".      *)
(* A list or tuple is a sequence, a dict a function.  A function object is *)
(* a record of what inspect.getargspec and the attribute lookups of        *)
(* from_function read from it.  A default or argument value is a tagged    *)
(* pair such as <<"orig", "y">>, so that values of different origin differ.*)
(***************************************************************************)
EXTENDS Integers, Sequences, FiniteSets, TLC

\* Longest argument-name list of a drawn signature or function.
MaxArgs == 2

None == "None"

\* Argument names of the destination (original) and of the source (addition):
\* "y" is common to both.
OrigNames == {"y", "a"}
AddNames == {"x", "y"}

Range(s) == {s[i] : i \in DOMAIN s}
IsDupFree(s) == \A i, j \in DOMAIN s : s[i] = s[j] => i = j
SeqsUpTo(S, n) == UNION {[1..k -> S] : k \in 0..n}
Reverse(s) == [i \in 1..Len(s) |-> s[Len(s) + 1 - i]]
EmptyMap == [n \in {} |-> <<>>]
IndexOf(s, e) == CHOOSE i \in DOMAIN s : s[i] = e

(***************************************************************************)
(* Function objects and Python's argument binding.                         *)
(***************************************************************************)

\* A function or bound method as getargspec sees it: args, the trailing
\* defaults tuple, the *varargs and **keywords names, and for a bound method
\* its __self__ and class.
FuncObj(args, defaults, varargs, keywords, self, cls, name, doc) ==
    [args |-> args, defaults |-> defaults, varargs |-> varargs, keywords |-> keywords,
     self |-> self, cls |-> cls, name |-> name, doc |-> doc]

\* Whether parameter number i of fn has a default: __defaults__ belongs to the
\* LAST Len(defaults) positional parameters.
HasDefault(fn, i) == i > Len(fn.args) - Len(fn.defaults)
DefaultAt(fn, i) == fn.defaults[i - (Len(fn.args) - Len(fn.defaults))]

\* What a bound method receives positionally: its receiver first.
WithReceiver(fn, pos) == IF fn.self # None THEN <<<<"self", fn.self>>>> \o pos ELSE pos

\* Python's binding of a call fn(*pos, **kw): ok is FALSE for a TypeError (too
\* many positionals, an unexpected or doubled keyword, a missing argument).
Bind(fn, pos, kw) ==
    LET P == WithReceiver(fn, pos)
        n == Len(fn.args)
        npos == IF Len(P) < n THEN Len(P) ELSE n
        tooMany == Len(P) > n /\ fn.varargs = None
        doubled == \E k \in DOMAIN kw : k \in Range(fn.args) /\ IndexOf(fn.args, k) <= npos
        unexpected == \E k \in DOMAIN kw : k \notin Range(fn.args) /\ fn.keywords = None
        missing == \E i \in 1..n : i > npos /\ fn.args[i] \notin DOMAIN kw /\ ~HasDefault(fn, i)
        ok == ~tooMany /\ ~doubled /\ ~unexpected /\ ~missing
    IN [ok |-> ok,
        bound |-> IF ok
                  THEN [a \in Range(fn.args) |->
                          LET i == IndexOf(fn.args, a)
                          IN IF i <= npos THEN P[i]
                             ELSE IF a \in DOMAIN kw THEN kw[a]
                             ELSE DefaultAt(fn, i)]
                  ELSE EmptyMap,
        extra_pos |-> IF ok /\ Len(P) > n THEN SubSeq(P, n + 1, Len(P)) ELSE <<>>,
        extra_kw |-> IF ok THEN [k \in DOMAIN kw \ Range(fn.args) |-> kw[k]] ELSE EmptyMap]

(***************************************************************************)
(* FunctionSignature                                                       *)
(***************************************************************************)

FunctionSignature(arg_names, defaults, varg_name, kwarg_name, cls, obj, name, doc) ==
    [arg_names |-> arg_names, defaults |-> defaults, varg_name |-> varg_name,
     kwarg_name |-> kwarg_name, cls |-> cls, obj |-> obj, name |-> name, doc |-> doc]

NoSig == FunctionSignature(<<>>, EmptyMap, None, None, None, None, None, None)

\* defaults_list: walk arg_names backwards, keep the values of the names that
\* have a default, reverse the result.
get_defaults_list(sig) ==
    LET kept == SelectSeq(Reverse(sig.arg_names), LAMBDA a : a \in DOMAIN sig.defaults)
    IN Reverse([i \in 1..Len(kept) |-> sig.defaults[kept[i]]])

\* An optional pass_order argument.
NoPassOrder == [given |-> FALSE, order |-> <<>>]
PassOrder(order) == [given |-> TRUE, order |-> order]

\* The signature text, as its comma-separated items: the argument names (or
\* pass_order), then *varg_name, then **kwarg_name, absent parts left out.
Token(kind, name) == [kind |-> kind, name |-> name]
signature(sig, pass_order) ==
    LET args_sig == IF ~pass_order.given THEN sig.arg_names ELSE pass_order.order
        varg_sig == IF sig.varg_name # None THEN <<Token("varg", sig.varg_name)>> ELSE <<>>
        kwarg_sig == IF sig.kwarg_name # None THEN <<Token("kwarg", sig.kwarg_name)>> ELSE <<>>
    IN [i \in 1..Len(args_sig) |-> Token("arg", args_sig[i])] \o varg_sig \o kwarg_sig

\* The names a signature text declares or passes, by kind.
TokenNames(toks, kind) ==
    LET sel == SelectSeq(toks, LAMBDA t : t.kind = kind)
    IN [i \in 1..Len(sel) |-> sel[i].name]
TokenName(toks, kind) ==
    IF TokenNames(toks, kind) = <<>> THEN None ELSE TokenNames(toks, kind)[1]

\* A callable made by wrap_function: fn is the lambda as a function object,
\* call_args/call_varg/call_kwarg are what its body passes to target.
NoFunc == FuncObj(<<>>, <<>>, None, None, None, None, None, None)
NoWrapped == [ok |-> FALSE, fn |-> NoFunc, call_args |-> <<>>, call_varg |-> None,
              call_kwarg |-> None, target |-> NoFunc]

\* __defaults__ of the lambda built by wrap_function.
wrapped_defaults(sig) == get_defaults_list(sig)

\* eval("lambda <signature()>: _func_(<signature(pass_order)>)"), then the
\* defaults, doc, name and binding are set.  Python refuses a lambda that
\* declares a name twice (SyntaxError): ok is FALSE.
wrap_function(sig, func, pass_order) ==
    LET decl == signature(sig, NoPassOrder)
        body == signature(sig, pass_order)
        declared == TokenNames(decl, "arg") \o TokenNames(decl, "varg") \o TokenNames(decl, "kwarg")
    IN IF ~IsDupFree(declared)
       THEN NoWrapped
       ELSE [ok |-> TRUE,
             fn |-> FuncObj(TokenNames(decl, "arg"),
                            wrapped_defaults(sig),
                            TokenName(decl, "varg"),
                            TokenName(decl, "kwarg"),
                            IF sig.cls # None THEN sig.obj ELSE None,
                            sig.cls,
                            IF sig.name # None THEN sig.name ELSE func.name,
                            IF sig.doc # None THEN sig.doc ELSE func.doc),
             call_args |-> TokenNames(body, "arg"),
             call_varg |-> TokenName(body, "varg"),
             call_kwarg |-> TokenName(body, "kwarg"),
             target |-> func]

\* mandatory_args_num and max_args_num; Unlimited stands for None.
mandatory_args_num(sig) ==
    LET mand_args == Len(sig.arg_names) - Cardinality(DOMAIN sig.defaults)
    IN IF sig.obj # None
       THEN (IF mand_args > 0 THEN mand_args - 1 ELSE 0)
       ELSE mand_args

Unlimited == [limited |-> FALSE, num |-> 0]
Limited(n) == [limited |-> TRUE, num |-> n]
max_args_num(sig, include_positional, include_keywords) ==
    IF (include_positional /\ sig.varg_name # None) \/ (include_keywords /\ sig.kwarg_name # None)
    THEN Unlimited
    ELSE IF sig.obj # None
         THEN Limited(Len(sig.arg_names) - 1)
         ELSE Limited(Len(sig.arg_names))

\* from_function for a function or a bound method: the defaults tuple is
\* zipped onto the last argument names; a bound method gives cls and obj.
\* (A callable object is read through its bound __call__, so it is drawn here
\* as that bound method.)
from_function(func) ==
    LET n == Len(func.args)
        k == Len(func.defaults)
        defaults == [a \in {func.args[i] : i \in (n - k + 1)..n} |->
                        func.defaults[IndexOf(func.args, a) - (n - k)]]
    IN FunctionSignature(func.args, defaults, func.varargs, func.keywords,
                         IF func.self # None THEN func.cls ELSE None,
                         func.self, func.name, func.doc)

\* An optional overwrite argument: a set of keys, or not passed.
NoOverwrite == [given |-> FALSE, keys |-> {}]
Overwrite(keys) == [given |-> TRUE, keys |-> keys]

\* overwrite=overwrite or {"kwarg_name","varg_name"}: None and an empty
\* collection are both falsy.
merge_overwrite(overwrite) ==
    IF overwrite.given /\ overwrite.keys # {}
    THEN overwrite.keys
    ELSE {"kwarg_name", "varg_name"}

Without(s, t) == SelectSeq(s, LAMBDA a : a \notin Range(t))

\* The add_place values merge recognizes.
ValidPlace(add_place) == add_place \in {"back", "front"}

\* merge_arg_names with the two placements exchanged.
merge_arg_names_swapped(original, addition, add_place) ==
    IF add_place = "front"
    THEN original.arg_names \o Without(addition.arg_names, original.arg_names)
    ELSE addition.arg_names \o Without(original.arg_names, addition.arg_names)

\* The merged argument names, for a recognized add_place.
merge_arg_names(original, addition, add_place) ==
    IF add_place = "back"
    THEN original.arg_names \o Without(addition.arg_names, original.arg_names)
    ELSE addition.arg_names \o Without(original.arg_names, addition.arg_names)

\* merge_pass_order following the order of a front merge.
merge_pass_order_front(original, addition, merge_duplicates) ==
    IF merge_duplicates
    THEN addition.arg_names \o Without(original.arg_names, addition.arg_names)
    ELSE addition.arg_names \o original.arg_names

\* pass_order: the order in which the merged arguments go to the original.
merge_pass_order(original, addition, merge_duplicates) ==
    IF merge_duplicates
    THEN original.arg_names \o Without(addition.arg_names, original.arg_names)
    ELSE original.arg_names \o addition.arg_names

merge_defaults(original, addition) ==
    [n \in DOMAIN addition.defaults \cup DOMAIN original.defaults |->
        IF n \in DOMAIN original.defaults THEN original.defaults[n] ELSE addition.defaults[n]]

\* FunctionSignature.merge: ok is FALSE when it raises ValueError.
NoMerge == [ok |-> FALSE, sig |-> NoSig, pass_order |-> <<>>]
merge(original, addition, add_place, merge_duplicates, overwrite) ==
    LET ow == merge_overwrite(overwrite)
        ow_cls == "cls" \in ow \/ ("obj" \in ow /\ addition.obj # None)
    IN IF ~ValidPlace(add_place)
       THEN NoMerge
       ELSE [ok |-> TRUE,
             sig |-> FunctionSignature(
                 merge_arg_names(original, addition, add_place),
                 merge_defaults(original, addition),
                 IF "varg_name" \in ow THEN addition.varg_name ELSE original.varg_name,
                 IF "kwarg_name" \in ow THEN addition.kwarg_name ELSE original.kwarg_name,
                 IF ow_cls \/ original.cls = None THEN addition.cls ELSE original.cls,
                 IF "obj" \in ow \/ original.obj = None THEN addition.obj ELSE original.obj,
                 IF "name" \in ow THEN addition.name ELSE original.name,
                 IF "doc" \in ow \/ original.doc = None THEN addition.doc ELSE original.doc),
             pass_order |-> merge_pass_order(original, addition, merge_duplicates)]

\* The arguments of one call of merge; absent ones take the declared defaults
\* add_place="front", merge_duplicates=True, overwrite=None.
MergeCall(add_place, merge_duplicates, overwrite) ==
    [add_place |-> add_place, merge_duplicates |-> merge_duplicates, overwrite |-> overwrite]
DefaultMergeCall == MergeCall("front", TRUE, NoOverwrite)

\* getargsfrom(source, **merge_params)(dest)
getargsfrom(source, dest, params) ==
    LET add_sig == from_function(source)
        orig_sig == from_function(dest)
        m == merge(orig_sig, add_sig, params.add_place, params.merge_duplicates, params.overwrite)
    IN IF m.ok THEN wrap_function(m.sig, dest, PassOrder(m.pass_order)) ELSE NoWrapped

\* A call wrapped(*pos, **kw) of a callable made by wrap_function: the lambda
\* binds its parameters (TypeError: ok FALSE), then its body passes call_args,
\* the surplus positionals and the surplus keywords to target (a name the
\* lambda does not declare is a NameError: named FALSE).
NoCall == [style |-> None, omitted |-> None, ok |-> FALSE, bound |-> EmptyMap,
           named |-> FALSE, fwd_pos |-> <<>>, fwd_kw |-> EmptyMap, target_ok |-> FALSE]
call_wrapped(w, pos, kw) ==
    LET b == Bind(w.fn, pos, kw)
        named == b.ok /\ Range(w.call_args) \subseteq DOMAIN b.bound
        fwd_pos == IF named
                   THEN [i \in 1..Len(w.call_args) |-> b.bound[w.call_args[i]]]
                        \o (IF w.call_varg # None THEN b.extra_pos ELSE <<>>)
                   ELSE <<>>
        fwd_kw == IF named /\ w.call_kwarg # None THEN b.extra_kw ELSE EmptyMap
    IN [ok |-> b.ok, bound |-> b.bound, named |-> named,
        fwd_pos |-> fwd_pos, fwd_kw |-> fwd_kw,
        target_ok |-> named /\ Bind(w.target, fwd_pos, fwd_kw).ok]

(***************************************************************************)
(* State.                                                                  *)
(***************************************************************************)

VARIABLES
    sig_stage,   \* signatures: "idle", "start", "sigs", "merged", "valueerror",
                 \*             "wrapped", "syntaxerror", "called"
    original,    \* the descriptor passed to merge as original
    addition,    \* the descriptor passed to merge as addition
    merge_call,  \* the arguments of the last merge call
    merged,      \* what merge returned
    wrapped,     \* what wrap_function returned
    call         \* the last call of wrapped and its outcome

VARIABLES
    cut_stage,   \* call_cut_args: "idle", "start", "called"
    cut_func,    \* the function passed to call_cut_args
    cut_given,   \* the candidate arguments [pos, kw] passed with it
    cut_invoked  \* what func was invoked with, and whether it accepted it

VARIABLES
    delay_stage, \* delaydef: "idle", "defined"
    gen,         \* the generator passed to delaydef
    wrapper,     \* the callable delaydef returned
    scope,       \* what gen.__name__ is bound to in the globals delaydef writes
    gen_runs,    \* how many times gen was executed
    delay_calls, \* how many calls were made
    last_call    \* the last call and its outcome

VARIABLES
    prop_stage,  \* property wrappers: "idle", "start", "built", "valueerror"
    prop,        \* the property wrapper
    obj_kind,    \* the named attribute of the object: "plain" or "property"
    obj_value,   \* the target object's value
    acc_log,     \* the accessor invocations so far
    last_op      \* the last get, set or rem and its outcome

VARIABLES
    num_stage,   \* argument counts: "idle", "start", "counted"
    num_sig,     \* the descriptor whose argument counts are taken
    num_flags,   \* include_positional and include_keywords of max_args_num
    num_result   \* what mandatory_args_num and max_args_num returned

sigvars == <<sig_stage, original, addition, merge_call, merged, wrapped, call>>
cutvars == <<cut_stage, cut_func, cut_given, cut_invoked>>
delayvars == <<delay_stage, gen, wrapper, scope, gen_runs, delay_calls, last_call>>
propvars == <<prop_stage, prop, obj_kind, obj_value, acc_log, last_op>>
numvars == <<num_stage, num_sig, num_flags, num_result>>

vars == <<sigvars, cutvars, delayvars, propvars, numvars>>

(***************************************************************************)
(* Signatures: inputs.                                                     *)
(***************************************************************************)

DefaultsOf(tag, D) == [n \in D |-> <<tag, n>>]

\* Descriptors built directly, with any argument-name list (repeats allowed)
\* and defaults for any of its names.
ArgSigs(S, tag, name) ==
    UNION {{FunctionSignature(al, DefaultsOf(tag, D), None, None, None, None, name, None) :
                D \in SUBSET Range(al)} : al \in SeqsUpTo(S, MaxArgs)}

\* Descriptors that differ in their variadic names, documentation and owner.
OrigFieldSigs ==
    {FunctionSignature(IF o = None THEN <<"a">> ELSE <<"self", "a">>, EmptyMap, v, k,
                       IF o = None THEN None ELSE "OCls", o, "g", d) :
        v \in {None, "oargs"}, k \in {None, "okwargs"}, o \in {None, "oobj"}, d \in {None, "odoc"}}
AddFieldSigs ==
    {FunctionSignature(<<"x">>, DefaultsOf("add", {"x"}), v, k, None, None, "f", d) :
        v \in {None, "args"}, k \in {None, "kwargs"}, d \in {None, "adoc"}}

SigPairs ==
    (ArgSigs(OrigNames, "orig", "g") \X ArgSigs(AddNames, "add", "f"))
    \cup (OrigFieldSigs \X AddFieldSigs)

\* Functions as Python lets one define them: distinct parameter names, the
\* defaults on the last k of them.
DefinedFuncs(S, tag, name, variadics, docs) ==
    UNION {{FuncObj(al, [i \in 1..k |-> <<tag, al[Len(al) - k + i]>>], v[1], v[2],
                    None, None, name, d) :
                k \in 0..Len(al), v \in variadics, d \in docs} :
           al \in {s \in SeqsUpTo(S, MaxArgs) : IsDupFree(s)}}
SourceFuncs == DefinedFuncs(AddNames, "add", "f", {<<None, None>>}, {None, "fdoc"})
DestFuncs ==
    DefinedFuncs(OrigNames, "orig", "g",
                 {<<None, None>>, <<"args", None>>, <<"args", "kwargs">>}, {None})

\* The function that direct wrap_function calls wrap.
GenericDest == FuncObj(<<>>, <<>>, "args", "kwargs", None, None, "g", "gdoc")

OverwriteKeys == {"varg_name", "kwarg_name", "name", "doc"}
MergeCalls ==
    {MergeCall(p, d, NoOverwrite) : p \in {"front", "back", "middle"}, d \in BOOLEAN}
    \cup {MergeCall("front", TRUE, Overwrite(K)) : K \in SUBSET OverwriteKeys}
    \cup {MergeCall("front", TRUE, Overwrite({k})) : k \in {"cls", "obj"}}

(***************************************************************************)
(* Signatures: operations.                                                 *)
(***************************************************************************)

StartSig ==
    /\ sig_stage = "start"
    /\ original = NoSig
    /\ addition = NoSig
    /\ merge_call = DefaultMergeCall
    /\ merged = NoMerge
    /\ wrapped = NoWrapped
    /\ call = NoCall

IdleSig ==
    /\ sig_stage = "idle"
    /\ original = NoSig
    /\ addition = NoSig
    /\ merge_call = DefaultMergeCall
    /\ merged = NoMerge
    /\ wrapped = NoWrapped
    /\ call = NoCall

\* Two descriptors are constructed.
Construct ==
    /\ sig_stage = "start"
    /\ \E p \in SigPairs :
        /\ original' = p[1]
        /\ addition' = p[2]
    /\ sig_stage' = "sigs"
    /\ UNCHANGED <<merge_call, merged, wrapped, call, cutvars, delayvars, propvars, numvars>>

\* FunctionSignature.merge(original, addition, ...)
Merge ==
    /\ sig_stage = "sigs"
    /\ \E c \in MergeCalls :
        /\ merge_call' = c
        /\ merged' = merge(original, addition, c.add_place, c.merge_duplicates, c.overwrite)
    /\ sig_stage' = IF merged'.ok THEN "merged" ELSE "valueerror"
    /\ UNCHANGED <<original, addition, wrapped, call, cutvars, delayvars, propvars, numvars>>

\* merged.wrap_function(func, pass_order=pass_order)
Wrap ==
    /\ sig_stage = "merged"
    /\ wrapped' = wrap_function(merged.sig, GenericDest, PassOrder(merged.pass_order))
    /\ sig_stage' = IF wrapped'.ok THEN "wrapped" ELSE "syntaxerror"
    /\ UNCHANGED <<original, addition, merge_call, merged, call, cutvars, delayvars, propvars, numvars>>

\* getargsfrom(source, add_place=...)(dest)
GetArgsFrom ==
    /\ sig_stage = "start"
    /\ \E source \in SourceFuncs, dest \in DestFuncs, place \in {"front", "back"} :
        LET c == MergeCall(place, TRUE, NoOverwrite)
        IN /\ original' = from_function(dest)
           /\ addition' = from_function(source)
           /\ merge_call' = c
           /\ merged' = merge(original', addition', c.add_place, c.merge_duplicates, c.overwrite)
           /\ wrapped' = getargsfrom(source, dest, c)
    /\ sig_stage' = IF wrapped'.ok THEN "wrapped" ELSE "syntaxerror"
    /\ UNCHANGED <<call, cutvars, delayvars, propvars, numvars>>

\* The parameters of a callable that its caller supplies (the receiver of a
\* bound method is supplied by the binding).
CallerParams(fn) == IF fn.self # None /\ Len(fn.args) > 0 THEN Tail(fn.args) ELSE fn.args

\* wrapped is called with every parameter but `omitted` supplied: by keyword,
\* or positionally up to the omitted one.
Call ==
    /\ sig_stage = "wrapped"
    /\ \E omitted \in Range(CallerParams(wrapped.fn)) \cup {None}, style \in {"keywords", "positional"} :
        LET ps == CallerParams(wrapped.fn)
            cut == IF omitted = None \/ style = "keywords" THEN 0
                   ELSE IndexOf(ps, omitted) - 1
            npos == IF style = "keywords" THEN 0
                    ELSE IF omitted = None THEN Len(ps) ELSE cut
            pos == [i \in 1..npos |-> <<"arg", ps[i]>>]
            kw == [a \in {ps[i] : i \in (npos + 1)..Len(ps)} \ {omitted} |-> <<"arg", a>>]
        IN call' = [style |-> style, omitted |-> omitted] @@ call_wrapped(wrapped, pos, kw)
    /\ sig_stage' = "called"
    /\ UNCHANGED <<original, addition, merge_call, merged, wrapped, cutvars, delayvars, propvars, numvars>>

(***************************************************************************)
(* call_cut_args                                                           *)
(***************************************************************************)

\* Most positional arguments of a drawn call.
MaxPos == 3

CutNames == {"a", "b"}
CutKeywords == {"a", "c"}

\* args[:n] of a Python sequence.
PySlice(args, n) ==
    LET stop == IF n >= 0 THEN (IF n < Len(args) THEN n ELSE Len(args))
                ELSE (IF Len(args) + n > 0 THEN Len(args) + n ELSE 0)
    IN SubSeq(args, 1, stop)

\* The positional limit call_cut_args applies: sig.max_args_num().
cut_max_args_num(sig) == max_args_num(sig, TRUE, TRUE)

\* call_cut_args(func, *args, **kwargs): what func is invoked with, and whether
\* func accepts it (ok is FALSE for its TypeError).
call_cut_args(func, args, kwargs) ==
    LET sig == from_function(func)
        cut_kwargs == IF sig.kwarg_name # None
                      THEN kwargs
                      ELSE [n \in {k \in DOMAIN kwargs : k \in Range(sig.arg_names)} |-> kwargs[n]]
        max == cut_max_args_num(sig)
        cut_args == IF ~max.limited THEN args ELSE PySlice(args, max.num)
    IN [pos |-> cut_args, kw |-> cut_kwargs, ok |-> Bind(func, cut_args, cut_kwargs).ok]

AllVariadics == {<<None, None>>, <<"args", None>>, <<None, "kwargs">>, <<"args", "kwargs">>}

\* f as a method bound to an instance: self is its first named argument.
BoundMethod(f) == [f EXCEPT !.args = <<"self">> \o f.args, !.self = "obj", !.cls = "Cls"]

\* A bound method declared with variadic slots only: def m(*args, **kwargs).
VariadicMethod == FuncObj(<<>>, <<>>, "args", "kwargs", "obj", "Cls", "m", None)

CutFuncs ==
    LET fs == DefinedFuncs(CutNames, "f", "f", AllVariadics, {None})
    IN fs \cup {BoundMethod(f) : f \in fs} \cup {VariadicMethod}

NoGiven == [pos |-> <<>>, kw |-> EmptyMap]
NoInvoked == [pos |-> <<>>, kw |-> EmptyMap, ok |-> FALSE]

StartCut ==
    /\ cut_stage = "start"
    /\ cut_func = NoFunc
    /\ cut_given = NoGiven
    /\ cut_invoked = NoInvoked

IdleCut ==
    /\ cut_stage = "idle"
    /\ cut_func = NoFunc
    /\ cut_given = NoGiven
    /\ cut_invoked = NoInvoked

\* call_cut_args(func, *args, **kwargs)
CallCutArgs ==
    /\ cut_stage = "start"
    /\ \E func \in CutFuncs, n \in 0..MaxPos, K \in SUBSET CutKeywords :
        LET args == [i \in 1..n |-> <<"pos", i>>]
            kwargs == [k \in K |-> <<"kw", k>>]
        IN /\ cut_func' = func
           /\ cut_given' = [pos |-> args, kw |-> kwargs]
           /\ cut_invoked' = call_cut_args(func, args, kwargs)
    /\ cut_stage' = "called"
    /\ UNCHANGED <<sigvars, delayvars, propvars, numvars>>

(***************************************************************************)
(* delaydef                                                                *)
(***************************************************************************)

\* Most calls of a delayed function, and most positional arguments of one.
MaxCalls == 3
MaxCallPos == 2

DelayKeywords == {"k"}

\* def wrapped(*args, **kwargs) inside delaydef.
InnerWrapped == FuncObj(<<>>, <<>>, "args", "kwargs", None, None, "wrapped", None)

\* Zero-argument generators.
Gens == {FuncObj(<<>>, <<>>, None, None, None, None, "func", d) : d \in {None, "gendoc"}}

\* delaydef(gen): the inner wrapped, decorated with getargsfrom(gen).
delaydef(g) == getargsfrom(g, InnerWrapped, DefaultMergeCall)

\* A binding of gen.__name__ in the globals that the inner wrapped writes: not
\* bound, the wrapper (gen was decorated in that module), or the target made
\* by execution number `no` of gen.
Binding(kind, no) == [kind |-> kind, no |-> no]

\* The target generated by gen accepts any arguments; its result tells which
\* target ran and what it received.
NoResult == [target |-> 0, pos |-> <<>>, kw |-> EmptyMap]
target_result(no, pos, kw) == [target |-> no, pos |-> pos, kw |-> kw]

NoDelayCall == [via |-> None, pos |-> <<>>, kw |-> EmptyMap, ok |-> FALSE,
                ran_gen |-> FALSE, result |-> NoResult]

IdleDelay ==
    /\ delay_stage = "idle"
    /\ gen = NoFunc
    /\ wrapper = NoWrapped
    /\ scope = Binding("unbound", 0)
    /\ gen_runs = 0
    /\ delay_calls = 0
    /\ last_call = NoDelayCall

\* After wrapper = delaydef(gen), before any call.
StartDelay ==
    /\ delay_stage = "defined"
    /\ gen \in Gens
    /\ wrapper = delaydef(gen)
    /\ scope \in {Binding("wrapper", 0), Binding("unbound", 0)}
    /\ gen_runs = 0
    /\ delay_calls = 0
    /\ last_call = NoDelayCall

\* One call wrapper(*pos, **kw): the synthesized lambda binds the arguments
\* (TypeError: nothing else happens), then the inner wrapped runs gen, rebinds
\* gen.__name__ and calls the new target.
RunWrapper(via, pos, kw) ==
    LET c == call_wrapped(wrapper, pos, kw)
    IN IF c.ok /\ c.target_ok
       THEN /\ gen_runs' = gen_runs + 1
            /\ scope' = Binding("target", gen_runs + 1)
            /\ last_call' = [via |-> via, pos |-> pos, kw |-> kw, ok |-> TRUE, ran_gen |-> TRUE,
                             result |-> target_result(gen_runs + 1, c.fwd_pos, c.fwd_kw)]
       ELSE /\ last_call' = [via |-> via, pos |-> pos, kw |-> kw, ok |-> FALSE,
                             ran_gen |-> FALSE, result |-> NoResult]
            /\ UNCHANGED <<gen_runs, scope>>

DelayArgs(n, K) == [pos |-> [i \in 1..n |-> <<"pos", i>>], kw |-> [k \in K |-> <<"kw", k>>]]

\* A call through a reference to the wrapper kept from delaydef's return.
CallByRef ==
    /\ delay_stage = "defined"
    /\ delay_calls < MaxCalls
    /\ \E n \in 0..MaxCallPos, K \in SUBSET DelayKeywords :
        RunWrapper("ref", DelayArgs(n, K).pos, DelayArgs(n, K).kw)
    /\ delay_calls' = delay_calls + 1
    /\ UNCHANGED <<delay_stage, gen, wrapper, sigvars, cutvars, propvars, numvars>>

\* A call that looks gen.__name__ up in the globals: the wrapper before the
\* rebinding, the generated target after it.
CallByName ==
    /\ delay_stage = "defined"
    /\ delay_calls < MaxCalls
    /\ scope.kind # "unbound"
    /\ \E n \in 0..MaxCallPos, K \in SUBSET DelayKeywords :
        LET a == DelayArgs(n, K)
        IN IF scope.kind = "wrapper"
           THEN RunWrapper("name", a.pos, a.kw)
           ELSE /\ last_call' = [via |-> "name", pos |-> a.pos, kw |-> a.kw, ok |-> TRUE,
                                 ran_gen |-> FALSE,
                                 result |-> target_result(scope.no, a.pos, a.kw)]
                /\ UNCHANGED <<gen_runs, scope>>
    /\ delay_calls' = delay_calls + 1
    /\ UNCHANGED <<delay_stage, gen, wrapper, sigvars, cutvars, propvars, numvars>>

(***************************************************************************)
(* Object properties                                                       *)
(***************************************************************************)

\* Most accessor invocations made through one property wrapper, and the
\* longest tuple passed as params or value.
MaxOps == 2
MaxTuple == 2

\* Python values passed as params or value: None, a non-tuple, or a tuple.
PyNone == [kind |-> "none", items |-> <<>>]
Scalar(v) == [kind |-> "scalar", items |-> <<v>>]
PyTuple(n) == [kind |-> "tuple", items |-> [i \in 1..n |-> "t"]]
Deleted == [kind |-> "deleted", items |-> <<>>]
ParamValues == {PyNone, Scalar("s")} \cup {PyTuple(n) : n \in 0..MaxTuple}

\* An accessor slot of a MethodObjectProperty: not supplied, one of the
\* lambdas of empty_object_property (const), or a callable of the caller's.
NoAccessor == [supplied |-> FALSE, const |-> FALSE, value |-> PyNone]
ConstAccessor(value) == [supplied |-> TRUE, const |-> TRUE, value |-> value]
UserAccessor == [supplied |-> TRUE, const |-> FALSE, value |-> PyNone]

NoProp == [kind |-> None, getter |-> NoAccessor, setter |-> NoAccessor, remover |-> NoAccessor,
           expand_tuple |-> TRUE, name |-> None, use_getter |-> FALSE, use_setter |-> FALSE,
           use_remover |-> FALSE]

\* MethodObjectProperty(getter, setter, remover, expand_tuple): an argument
\* that is None leaves its slot None.
MethodObjectProperty(getter, setter, remover, expand_tuple) ==
    [NoProp EXCEPT !.kind = "method", !.getter = getter, !.setter = setter,
                   !.remover = remover, !.expand_tuple = expand_tuple]

\* AttrObjectProperty(name, use_getter, use_setter, use_remover, expand_tuple)
AttrObjectPropertyWith(name, use_getter, use_setter, use_remover, expand_tuple) ==
    [NoProp EXCEPT !.kind = "attr", !.name = name, !.use_getter = use_getter,
                   !.use_setter = use_setter, !.use_remover = use_remover,
                   !.expand_tuple = expand_tuple]

\* AttrObjectProperty(name) with its declared defaults.
AttrObjectProperty(name) == AttrObjectPropertyWith(name, TRUE, TRUE, TRUE, TRUE)

empty_object_property(value) ==
    MethodObjectProperty(ConstAccessor(value), ConstAccessor(PyNone), ConstAccessor(PyNone), TRUE)

\* A constructor argument: None, a callable ("fn") or an attribute name.
AsAccessor(arg) == IF arg = None THEN NoAccessor ELSE UserAccessor

\* obj_prop(*args): ok is FALSE for its ValueError.
obj_prop(args) ==
    IF Len(args) = 0 THEN [ok |-> TRUE, prop |-> empty_object_property(PyNone)]
    ELSE IF Len(args) = 1
    THEN (IF args[1] = None
          THEN [ok |-> TRUE, prop |-> empty_object_property(PyNone)]
          ELSE [ok |-> TRUE, prop |-> AttrObjectProperty(args[1])])
    ELSE IF Len(args) <= 3
    THEN [ok |-> TRUE,
          prop |-> MethodObjectProperty(AsAccessor(args[1]), AsAccessor(args[2]),
                                        IF Len(args) = 3 THEN AsAccessor(args[3]) ELSE NoAccessor,
                                        TRUE)]
    ELSE [ok |-> FALSE, prop |-> NoProp]

\* The outcome of get, set or rem: the exception raised (None: it returned),
\* the value returned, the accessor invocations made and the object's value
\* afterwards.
Outcome(exc, ret, invoked, obj) == [exc |-> exc, ret |-> ret, invoked |-> invoked, obj |-> obj]
Raised(exc, obj) == Outcome(exc, PyNone, <<>>, obj)

\* MethodObjectCall.__call__(obj, *args) on an accessor.  A lambda of
\* empty_object_property returns its value and does nothing; the caller's
\* getter reads the object's value, its setter stores its first argument, its
\* remover deletes the value.  (A MethodObjectCall made from a method name
\* calls the object's method of that name with the same arguments.)
invoke(acc, which, obj, args) ==
    LET entry == <<[acc |-> which, args |-> args]>>
    IN IF acc.const THEN Outcome(None, acc.value, entry, obj)
       ELSE IF which = "getter" THEN Outcome(None, obj, entry, obj)
       ELSE IF which = "setter"
       THEN Outcome(None, PyNone, entry, IF args = <<>> THEN obj ELSE args[1])
       ELSE Outcome(None, PyNone, entry, Deleted)

\* *params of a tuple: its items as separate arguments.
Expanded(params) == [i \in 1..Len(params.items) |-> Scalar(params.items[i])]

\* MethodObjectProperty.get(obj, params)
prop_get(p, obj, params) ==
    IF p.getter.supplied
    THEN IF params.kind # "none"
         THEN (IF p.expand_tuple /\ params.kind = "tuple"
               THEN invoke(p.getter, "getter", obj, Expanded(params))
               ELSE invoke(p.getter, "getter", obj, <<params>>))
         ELSE invoke(p.getter, "getter", obj, <<>>)
    ELSE Raised("RuntimeError: getter is not supplied", obj)

\* MethodObjectProperty.set(obj, value)
prop_set(p, obj, value) ==
    IF p.setter.supplied
    THEN IF p.expand_tuple /\ value.kind = "tuple"
         THEN invoke(p.setter, "setter", obj, Expanded(value))
         ELSE invoke(p.setter, "setter", obj, <<value>>)
    ELSE Raised("RuntimeError: setter is not supplied", obj)

\* MethodObjectProperty.rem(obj, params): with params None the last branch
\* evaluates self.remover(obj, *params), and *None is a TypeError raised
\* before the remover is entered.
prop_rem(p, obj, params) ==
    IF p.remover.supplied
    THEN IF params.kind # "none"
         THEN (IF p.expand_tuple /\ params.kind = "tuple"
               THEN invoke(p.remover, "remover", obj, Expanded(params))
               ELSE invoke(p.remover, "remover", obj, <<params>>))
         ELSE Raised("TypeError", obj)
    ELSE Raised("RuntimeError: remover is not supplied", obj)

\* A call of a builtin on the object's attribute, as an entry of the log.
Builtin(which, args) == <<[acc |-> which, args |-> args]>>

\* getattr(type(obj), name).fget / .fset / .fdel of a computed property: the
\* property's own accessors, which take any arguments.
PropertyAccessor == UserAccessor

\* getattr(obj, name): AttributeError when the attribute is not there.
getattr_plain(obj) ==
    IF obj = Deleted THEN Raised("AttributeError", obj)
    ELSE Outcome(None, obj, Builtin("getattr", <<>>), obj)

\* The except branch of AttrObjectProperty.set that stores the tuple itself.
attr_set_plain_whole(p, obj, value) ==
    Outcome(None, PyNone, Builtin("setattr", <<value>>), value)

\* The except branch of AttrObjectProperty.set: with expand_tuple a tuple is
\* the argument list and value[0] is stored, an IndexError for the empty
\* tuple; any other value is stored as it is.
attr_set_plain(p, obj, value) ==
    IF p.expand_tuple /\ value.kind = "tuple"
    THEN IF Len(value.items) = 0
         THEN Raised("IndexError", obj)
         ELSE Outcome(None, PyNone, Builtin("setattr", <<Scalar(value.items[1])>>),
                      Scalar(value.items[1]))
    ELSE Outcome(None, PyNone, Builtin("setattr", <<value>>), value)

\* delattr(obj, name)
delattr_plain(obj) ==
    IF obj = Deleted THEN Raised("AttributeError", obj)
    ELSE Outcome(None, PyNone, Builtin("delattr", <<>>), Deleted)

\* AttrObjectProperty.get(obj, params); kind tells whether the class has a
\* computed property of that name, and without one the lookup of fget ends in
\* AttributeError and the attribute is read.
attr_get(p, kind, obj, params) ==
    IF p.use_getter
    THEN IF kind = "property"
         THEN (IF params.kind = "none"
               THEN invoke(PropertyAccessor, "getter", obj, <<>>)
               ELSE IF p.expand_tuple /\ params.kind = "tuple"
               THEN invoke(PropertyAccessor, "getter", obj, Expanded(params))
               ELSE invoke(PropertyAccessor, "getter", obj, <<params>>))
         ELSE getattr_plain(obj)
    ELSE Raised("RuntimeError: getter is not supplied", obj)

\* AttrObjectProperty.set(obj, value)
attr_set(p, kind, obj, value) ==
    IF p.use_setter
    THEN IF kind = "property"
         THEN (IF p.expand_tuple /\ value.kind = "tuple"
               THEN invoke(PropertyAccessor, "setter", obj, Expanded(value))
               ELSE invoke(PropertyAccessor, "setter", obj, <<value>>))
         ELSE attr_set_plain(p, obj, value)
    ELSE Raised("RuntimeError: setter is not supplied", obj)

\* AttrObjectProperty.rem(obj, params)
attr_rem(p, kind, obj, params) ==
    IF p.use_remover
    THEN IF kind = "property"
         THEN (IF params.kind = "none"
               THEN invoke(PropertyAccessor, "remover", obj, <<>>)
               ELSE IF p.expand_tuple /\ params.kind = "tuple"
               THEN invoke(PropertyAccessor, "remover", obj, Expanded(params))
               ELSE invoke(PropertyAccessor, "remover", obj, <<params>>))
         ELSE delattr_plain(obj)
    ELSE Raised("RuntimeError: remover is not supplied", obj)

NoOp == [op |-> None, arg |-> PyNone, exc |-> None, ret |-> PyNone,
         obj_before |-> PyNone, log_before |-> <<>>,
         prev_op |-> None, prev_arg |-> PyNone, prev_exc |-> None]

InitialValue == Scalar("init")

IdleProp ==
    /\ prop_stage = "idle"
    /\ prop = NoProp
    /\ obj_kind = "plain"
    /\ obj_value = InitialValue
    /\ acc_log = <<>>
    /\ last_op = NoOp

StartProp ==
    /\ prop_stage = "start"
    /\ prop = NoProp
    /\ obj_kind \in {"plain", "property"}
    /\ obj_value = InitialValue
    /\ acc_log = <<>>
    /\ last_op = NoOp

ObjPropArgs ==
    {<<>>, <<None>>, <<"name">>, <<"fn", "fn", "fn", "fn">>}
    \cup [1..2 -> {None, "fn"}] \cup [1..3 -> {None, "fn"}]

\* empty_object_property(value)
BuildEmpty ==
    /\ prop_stage = "start"
    /\ \E value \in {PyNone, Scalar("val")} : prop' = empty_object_property(value)
    /\ prop_stage' = "built"
    /\ UNCHANGED <<obj_kind, obj_value, acc_log, last_op, sigvars, cutvars, delayvars, numvars>>

\* obj_prop(*args)
BuildObjProp ==
    /\ prop_stage = "start"
    /\ \E args \in ObjPropArgs :
        /\ prop' = obj_prop(args).prop
        /\ prop_stage' = IF obj_prop(args).ok THEN "built" ELSE "valueerror"
    /\ UNCHANGED <<obj_kind, obj_value, acc_log, last_op, sigvars, cutvars, delayvars, numvars>>

\* MethodObjectProperty(getter, setter, remover, expand_tuple=...)
BuildMethodProp ==
    /\ prop_stage = "start"
    /\ \E g \in {None, "fn"}, s \in {None, "fn"}, r \in {None, "fn"}, e \in BOOLEAN :
        prop' = MethodObjectProperty(AsAccessor(g), AsAccessor(s), AsAccessor(r), e)
    /\ prop_stage' = "built"
    /\ UNCHANGED <<obj_kind, obj_value, acc_log, last_op, sigvars, cutvars, delayvars, numvars>>

\* AttrObjectProperty(name, use_getter, use_setter, use_remover, expand_tuple)
BuildAttrProp ==
    /\ prop_stage = "start"
    /\ \E g \in BOOLEAN, s \in BOOLEAN, r \in BOOLEAN, e \in BOOLEAN :
        prop' = AttrObjectPropertyWith("name", g, s, r, e)
    /\ prop_stage' = "built"
    /\ UNCHANGED <<obj_kind, obj_value, acc_log, last_op, sigvars, cutvars, delayvars, numvars>>

\* The state after one operation with outcome r.
Record(op, arg, r) ==
    /\ last_op' = [op |-> op, arg |-> arg, exc |-> r.exc, ret |-> r.ret,
                   obj_before |-> obj_value, log_before |-> acc_log,
                   prev_op |-> last_op.op, prev_arg |-> last_op.arg,
                   prev_exc |-> last_op.exc]
    /\ acc_log' = acc_log \o r.invoked
    /\ obj_value' = r.obj
    /\ UNCHANGED <<prop_stage, prop, obj_kind, sigvars, cutvars, delayvars, numvars>>

CanOperate == prop_stage = "built" /\ Len(acc_log) < MaxOps

\* prop.get(obj) and prop.get(obj, params)
Get ==
    /\ CanOperate
    /\ \E params \in ParamValues : Record("get", params, IF prop.kind = "attr"
                               THEN attr_get(prop, obj_kind, obj_value, params)
                               ELSE prop_get(prop, obj_value, params))

\* prop.set(obj, value)
Set ==
    /\ CanOperate
    /\ \E value \in ParamValues : Record("set", value, IF prop.kind = "attr"
                              THEN attr_set(prop, obj_kind, obj_value, value)
                              ELSE prop_set(prop, obj_value, value))

\* prop.rem(obj) and prop.rem(obj, params)
Rem ==
    /\ CanOperate
    /\ \E params \in ParamValues : Record("rem", params, IF prop.kind = "attr"
                               THEN attr_rem(prop, obj_kind, obj_value, params)
                               ELSE prop_rem(prop, obj_value, params))

(***************************************************************************)
(* mandatory_args_num and max_args_num                                     *)
(***************************************************************************)

\* s as the descriptor of a callable owned by an instance.
Owned(s) == [s EXCEPT !.obj = "obj", !.cls = "Cls"]

\* Descriptors whose defaults keys are all argument names: those of functions
\* and bound methods (the method with variadic slots only among them), and
\* directly built ones, unbound and bound.
NumSigs ==
    {from_function(f) : f \in CutFuncs}
    \cup ArgSigs(CutNames, "f", "f")
    \cup {Owned(s) : s \in ArgSigs(CutNames, "f", "f")}

NoFlags == [include_positional |-> TRUE, include_keywords |-> TRUE]
NoCounts == [mandatory |-> 0, max |-> Unlimited]

StartNum ==
    /\ num_stage = "start"
    /\ num_sig = NoSig
    /\ num_flags = NoFlags
    /\ num_result = NoCounts

IdleNum ==
    /\ num_stage = "idle"
    /\ num_sig = NoSig
    /\ num_flags = NoFlags
    /\ num_result = NoCounts

\* sig.mandatory_args_num() and sig.max_args_num(include_positional,
\* include_keywords) of one descriptor.
CountArgs ==
    /\ num_stage = "start"
    /\ \E sig \in NumSigs, ip \in BOOLEAN, ik \in BOOLEAN :
        /\ num_sig' = sig
        /\ num_flags' = [include_positional |-> ip, include_keywords |-> ik]
        /\ num_result' = [mandatory |-> mandatory_args_num(sig),
                          max |-> max_args_num(sig, ip, ik)]
    /\ num_stage' = "counted"
    /\ UNCHANGED <<sigvars, cutvars, delayvars, propvars>>

(***************************************************************************)
(* Specifications: one per group of operations, and all of them together.  *)
(***************************************************************************)

InitSig == StartSig /\ IdleCut /\ IdleDelay /\ IdleProp /\ IdleNum
NextSig == Construct \/ Merge \/ Wrap \/ GetArgsFrom \/ Call
SpecSig == InitSig /\ [][NextSig]_vars

InitCut == IdleSig /\ StartCut /\ IdleDelay /\ IdleProp /\ IdleNum
NextCut == CallCutArgs
SpecCut == InitCut /\ [][NextCut]_vars

InitDelay == IdleSig /\ IdleCut /\ StartDelay /\ IdleProp /\ IdleNum
NextDelay == CallByRef \/ CallByName
SpecDelay == InitDelay /\ [][NextDelay]_vars

InitProp == IdleSig /\ IdleCut /\ IdleDelay /\ StartProp /\ IdleNum
NextProp == BuildEmpty \/ BuildObjProp \/ BuildMethodProp \/ BuildAttrProp \/ Get \/ Set \/ Rem
SpecProp == InitProp /\ [][NextProp]_vars

InitNum == IdleSig /\ IdleCut /\ IdleDelay /\ IdleProp /\ StartNum
NextNum == CountArgs
SpecNum == InitNum /\ [][NextNum]_vars

Init == InitSig \/ InitCut \/ InitDelay \/ InitProp \/ InitNum
Next == NextSig \/ NextCut \/ NextDelay \/ NextProp \/ NextNum
Spec == Init /\ [][Next]_vars

(***************************************************************************)
(* Properties of the signature operations.                                 *)
(***************************************************************************)

RECURSIVE NamesNotIn(_, _)
\* The names of s that are not in the set S, in the order of s.
NamesNotIn(s, S) ==
    IF s = <<>> THEN <<>>
    ELSE (IF Head(s) \in S THEN <<>> ELSE <<Head(s)>>) \o NamesNotIn(Tail(s), S)

UniqueNames(sig) == Cardinality(Range(sig.arg_names)) = Len(sig.arg_names)
MergeReturned == sig_stage \in {"merged", "valueerror", "wrapped", "syntaxerror", "called"}

\* C1: the callable synthesized by wrap_function carries the descriptor's
\* defaults per name: a call that omits one parameter succeeds if and only if
\* that name is a key of the descriptor's defaults, and the parameter then
\* takes the value registered for that name.
C1_DefaultsPerName ==
    (sig_stage = "called" /\ call.omitted # None) =>
        /\ call.ok <=> call.omitted \in DOMAIN merged.sig.defaults
        /\ call.ok => call.bound[call.omitted] = merged.sig.defaults[call.omitted]

\* C2: merge's argument names are original's names then addition's names not
\* in original for add_place "back", addition's names then original's names
\* not in addition for "front"; for duplicate-free inputs the merged list is
\* duplicate-free and its set is the union of both name sets; any other
\* add_place raises ValueError and returns no descriptor.
C2_MergedArgNames ==
    MergeReturned =>
        LET o == original.arg_names
            a == addition.arg_names
            names == merged.sig.arg_names
        IN /\ merge_call.add_place = "back" =>
                merged.ok /\ names = o \o NamesNotIn(a, Range(o))
           /\ merge_call.add_place = "front" =>
                merged.ok /\ names = a \o NamesNotIn(o, Range(a))
           /\ (merged.ok /\ UniqueNames(original) /\ UniqueNames(addition)) =>
                /\ Cardinality(Range(names)) = Len(names)
                /\ Range(names) = Range(o) \cup Range(a)
           /\ merge_call.add_place \notin {"back", "front"} =>
                ~merged.ok /\ sig_stage = "valueerror"

\* A front merge of two lists that share a name and each have a name of
\* their own.
C2_Witness ==
    /\ sig_stage = "merged"
    /\ merge_call.add_place = "front"
    /\ original.arg_names = <<"y", "a">>
    /\ addition.arg_names = <<"x", "y">>
    /\ merged.sig.arg_names = <<"x", "y", "a">>

\* C3: pass_order always begins with original's names in original's order, for
\* both placements; with merge_duplicates it continues with addition's names
\* not in original, so that (argument names being unique in each descriptor) it
\* repeats no name and is a permutation of the merged argument names; without
\* merge_duplicates it is original's names followed by all of addition's names.
C3_PassOrder ==
    (MergeReturned /\ merged.ok) =>
        LET o == original.arg_names
            a == addition.arg_names
            po == merged.pass_order
        IN /\ Len(po) >= Len(o) /\ SubSeq(po, 1, Len(o)) = o
           /\ merge_call.merge_duplicates =>
                /\ SubSeq(po, Len(o) + 1, Len(po)) = NamesNotIn(a, Range(o))
                /\ (UniqueNames(original) /\ UniqueNames(addition)) =>
                    /\ Cardinality(Range(po)) = Len(po)
                    /\ Len(po) = Len(merged.sig.arg_names)
                    /\ Range(po) = Range(merged.sig.arg_names)
           /\ ~merge_call.merge_duplicates =>
                SubSeq(po, Len(o) + 1, Len(po)) = a

\* A front merge with duplicate suppression whose pass_order differs from the
\* merged argument order.
C3_Witness ==
    /\ sig_stage = "merged"
    /\ merge_call.add_place = "front"
    /\ merge_call.merge_duplicates
    /\ merged.sig.arg_names = <<"x", "y", "a">>
    /\ merged.pass_order = <<"y", "a", "x">>

\* C4: when merge is called without an overwrite argument, the merged
\* descriptor's varg_name, kwarg_name and doc are all addition's, the doc also
\* when original has a doc of its own.
C4_DefaultOverwrite ==
    (MergeReturned /\ merged.ok /\ ~merge_call.overwrite.given) =>
        /\ merged.sig.varg_name = addition.varg_name
        /\ merged.sig.kwarg_name = addition.kwarg_name
        /\ merged.sig.doc = addition.doc

\* C5: for every overwrite set passed to merge, the empty set included, each of
\* varg_name, kwarg_name and name of the merged descriptor is addition's if its
\* key is in the passed set and original's otherwise.
C5_PassedOverwrite ==
    (MergeReturned /\ merged.ok /\ merge_call.overwrite.given) =>
        LET K == merge_call.overwrite.keys
        IN /\ merged.sig.varg_name =
                (IF "varg_name" \in K THEN addition.varg_name ELSE original.varg_name)
           /\ merged.sig.kwarg_name =
                (IF "kwarg_name" \in K THEN addition.kwarg_name ELSE original.kwarg_name)
           /\ merged.sig.name = (IF "name" \in K THEN addition.name ELSE original.name)

(***************************************************************************)
(* Properties of call_cut_args, delaydef and the property wrappers.        *)
(***************************************************************************)

\* C6: call_cut_args invokes func with more positional arguments than func
\* has declared named parameters (less the bound receiver) only if func has a
\* variadic-positional slot, and with a keyword that is not one of its
\* argument names only if func has a variadic-keyword slot.
C6_CutFitsSignature ==
    cut_stage = "called" =>
        LET declared == Len(CallerParams(cut_func))
        IN /\ Len(cut_invoked.pos) > declared => cut_func.varargs # None
           /\ \A k \in DOMAIN cut_invoked.kw :
                k \notin Range(cut_func.args) => cut_func.keywords # None

\* C7: a call through the wrapper returned by delaydef(gen), with any
\* positional and keyword arguments, forwards them to the generated target and
\* returns the target's result for them, on the first call and on later ones.
C7_ForwardsArguments ==
    (delay_calls > 0 /\ last_call.via = "ref") =>
        /\ last_call.ok
        /\ last_call.result.pos = last_call.pos
        /\ last_call.result.kw = last_call.kw

\* C8: in a series of calls gen is executed once; after it ran, gen.__name__ is
\* bound to the target it generated, and every call that returns, by name or
\* through a retained reference to the wrapper, ran that one target.
C8_GenRunsOnce ==
    /\ gen_runs <= 1
    /\ gen_runs = 1 => scope = Binding("target", 1)
    /\ (delay_calls > 0 /\ last_call.ok) => last_call.result.target = 1

IsEmptyProperty(p) == p.kind = "method" /\ p.getter.const /\ p.setter.const /\ p.remover.const

\* C9: on the no-op property wrapper of obj_prop(), obj_prop(None) or
\* empty_object_property(value), every get, set and rem, with or without
\* params, returns without raising: get returns the fixed value, set and rem
\* return None, and the target object is left unchanged.
C9_EmptyPropertyNeverRaises ==
    (prop_stage = "built" /\ IsEmptyProperty(prop) /\ last_op.op # None) =>
        /\ last_op.exc = None
        /\ last_op.ret = (IF last_op.op = "get" THEN prop.getter.value ELSE PyNone)
        /\ obj_value = InitialValue

AccessorOf(p, op) ==
    IF op = "get" THEN p.getter ELSE IF op = "set" THEN p.setter ELSE p.remover
AccessorName(op) ==
    IF op = "get" THEN "getter" ELSE IF op = "set" THEN "setter" ELSE "remover"
NotSupplied(op) ==
    IF op = "get" THEN "RuntimeError: getter is not supplied"
    ELSE IF op = "set" THEN "RuntimeError: setter is not supplied"
    ELSE "RuntimeError: remover is not supplied"

\* C10: get, set or rem of a MethodObjectProperty raises the RuntimeError that
\* names the missing operation if and only if its callable was not supplied;
\* the failing call invokes no accessor and leaves the object unchanged, and a
\* supplied operation invokes exactly its own accessor.
C10_MissingOperationRaises ==
    (prop_stage = "built" /\ prop.kind = "method" /\ last_op.op # None) =>
        LET acc == AccessorOf(prop, last_op.op)
            n == Len(last_op.log_before)
        IN /\ last_op.exc = NotSupplied(last_op.op) <=> ~acc.supplied
           /\ ~acc.supplied => acc_log = last_op.log_before /\ obj_value = last_op.obj_before
           /\ acc.supplied =>
                /\ Len(acc_log) = n + 1
                /\ SubSeq(acc_log, 1, n) = last_op.log_before
                /\ acc_log[n + 1].acc = AccessorName(last_op.op)

(***************************************************************************)
(* Properties of the argument counts.                                      *)
(***************************************************************************)

\* C11: for every descriptor whose defaults keys are all argument names, bound
\* or unbound, mandatory_args_num() is never negative, and a number returned
\* by max_args_num is never negative and is at least mandatory_args_num().
C11_ArgCounts ==
    (num_stage = "counted" /\ DOMAIN num_sig.defaults \subseteq Range(num_sig.arg_names)) =>
        /\ num_result.mandatory >= 0
        /\ num_result.max.limited =>
            /\ num_result.max.num >= 0
            /\ num_result.max.num >= num_result.mandatory

(***************************************************************************)
(* Properties of AttrObjectProperty on a plain attribute.                  *)
(***************************************************************************)

\* A get(obj) that directly follows a set(obj, v) through an AttrObjectProperty
\* with get and set enabled, on a plain attribute.
GetAfterSet ==
    /\ prop_stage = "built" /\ prop.kind = "attr" /\ obj_kind = "plain"
    /\ prop.use_getter /\ prop.use_setter
    /\ last_op.op = "get" /\ last_op.prev_op = "set"

\* C12 as stated: for either setting of expand_tuple and every value v,
\* tuples of any length included, set(obj, v) completes without error and
\* the following get(obj) returns v.
C12_RoundTripAnyValue ==
    GetAfterSet =>
        /\ last_op.prev_exc = None
        /\ last_op.exc = None
        /\ last_op.ret = last_op.prev_arg

\* C12, amended: with expand_tuple off every value v, and with expand_tuple on
\* every v that is not a tuple, set(obj, v) completes and the following
\* get(obj) returns v; with expand_tuple on a non-empty tuple is expanded and
\* the get returns its first element, and the empty tuple makes set raise
\* IndexError.
C12_RoundTripUnlessExpanded ==
    GetAfterSet =>
        LET v == last_op.prev_arg
        IN IF prop.expand_tuple /\ v.kind = "tuple"
           THEN IF Len(v.items) = 0
                THEN last_op.prev_exc = "IndexError"
                ELSE /\ last_op.prev_exc = None
                     /\ last_op.exc = None
                     /\ last_op.ret = Scalar(v.items[1])
           ELSE /\ last_op.prev_exc = None
                /\ last_op.exc = None
                /\ last_op.ret = v

\* A get after set(obj, (t, t)) with expand_tuple on returned t.
C12_Witness ==
    /\ GetAfterSet
    /\ prop.expand_tuple
    /\ last_op.prev_arg = PyTuple(MaxTuple)
    /\ last_op.exc = None
    /\ last_op.ret = Scalar("t")

====
